---- MODULE Spec2Model ----
(***************************************************************************)
(* Personal expense tracker: DataHandler (data_handler.py) persists the    *)
(* expense collection in one JSON file, ExpenseManager (expense_manager.py)*)
(* validates, assigns identifiers and aggregates.                          *)
(*                                                                         *)
(* Representation:                                                         *)
(*   - the file is the text it holds, a string, with the value json.load   *)
(*     gives for that text kept beside it; a write puts characters over    *)
(*     the text from its first character on, as a handle opened with mode  *)
(*     'w' does, and leaves the rest of the text in place;                 *)
(*   - json.dump(indent=2) and json.load are computed character by         *)
(*     character (Dump, json_load);                                        *)
(*   - a Python value is [t |-> type, v |-> payload], see below;           *)
(*   - an input amount is the float n/256 (a dyadic rational, so the float *)
(*     is exact); the model carries the numerator n;                       *)
(*   - a float that is read from the file or stored in it is a decimal     *)
(*     m / 10^s, and sums of floats are sums of these decimals;            *)
(*   - json.load is modelled for the JSON that the texts here can hold:    *)
(*     numbers without exponent, strings without \u escapes, no NaN.       *)
(***************************************************************************)
EXTENDS Integers, Sequences, FiniteSets, TLC

VARIABLES file, clock, budget, faults, pc, args, expense, expenses, seen,
          before, last, stale, clobbered, failed, acked

vars == <<file, clock, budget, faults, pc, args, expense, expenses, seen,
          before, last, stale, clobbered, failed, acked>>

\* ------------------------------------------------------------------ bounds

\* The number of calls (of add_expense and of the queries) in one behaviour:
\* of one process on a new file, of one process on a file left behind, of
\* two processes.
MaxCalls == 3

MaxCallsAny == 1

MaxCallsTwo == 2

\* The number of open() and write() calls that raise OSError in one
\* behaviour.
MaxFaults == 1

\* ------------------------------------------------------------ the writers

Writers == {1, 2}

\* ------------------------------------------------------------- categories

\* self.categories, in order.
categories ==
  << "Food", "Transportation", "Entertainment", "Shopping",
     "Bills", "Healthcare", "Education", "Other" >>

CategorySet == { categories[i] : i \in 1..Len(categories) }

\* Category arguments of get_expenses_by_category: a category in another
\* letter case, a member of the list, and a name that is no category.
CategoryInputs == { "food", "Bills", "Invalid" }

\* ---------------------------------------------------------------- amounts

\* An input amount n stands for the float n / AmountUnit.
AmountUnit == 256

\* round(amount, 2) of the float n/256, in cents.  Python rounds the exact
\* value of the float correctly, a tie going to the even neighbour.
round2(n) ==
  LET q == (n * 100) \div AmountUnit
      r == (n * 100) % AmountUnit
  IN  IF 2 * r < AmountUnit THEN q
      ELSE IF 2 * r > AmountUnit THEN q + 1
      ELSE IF q % 2 = 0 THEN q ELSE q + 1

\* ----------------------------------------------------------------- inputs

\* The add_expense calls a caller makes.  Amounts: -5.0, 0.0, 0.00390625
\* (under half a cent), 0.125 (a tie between 0.12 and 0.13), 10.0.
\* Descriptions: "", "a" and " a ".
AddInputs ==
  { [amount |-> -1280, category |-> "Food",    description |-> "a"],
    [amount |-> 0,     category |-> "Bills",   description |-> ""],
    [amount |-> 2560,  category |-> "Invalid", description |-> "a"],
    [amount |-> 2560,  category |-> "food",    description |-> ""],
    [amount |-> 1,     category |-> "Food",    description |-> " a "],
    [amount |-> 32,    category |-> "Food",    description |-> ""],
    [amount |-> 2560,  category |-> "Bills",   description |-> "a"] }

NoArgs == [amount |-> 0, category |-> "", description |-> ""]

\* ----------------------------------------------------------- Python values
\*
\* A Python value is [t |-> type, v |-> payload]: a list holds its items,
\* a dict its items <<key, value>> in insertion order, a str its text, an
\* int its value, a float m / 10^s the pair <<m, s>> (s >= 0, and m not a
\* multiple of 10 unless s = 0).  An exception that leaves a function is
\* [t |-> "raise", v |-> <<name>>].

PyList(s)     == [t |-> "list",  v |-> s]
PyDict(items) == [t |-> "dict",  v |-> items]
PyStr(s)      == [t |-> "str",   v |-> << s >>]
PyInt(n)      == [t |-> "int",   v |-> << n >>]
PyBool(b)     == [t |-> "bool",  v |-> << b >>]
PyNone        == [t |-> "none",  v |-> << >>]
Raise(e)      == [t |-> "raise", v |-> << e >>]

RECURSIVE Pow10(_)
Pow10(s) == IF s = 0 THEN 1 ELSE 10 * Pow10(s - 1)

RECURSIVE PyFloat(_, _)
\* The float m / 10^s.
PyFloat(m, s) ==
  IF s > 0 /\ m % 10 = 0 THEN PyFloat(m \div 10, s - 1)
  ELSE [t |-> "float", v |-> << m, s >>]

IsNumber(x) == x.t \in {"int", "float", "bool"}

\* The number x is Mant(x) / 10^Scale(x).
Mant(x)  == IF x.t = "bool" THEN (IF x.v[1] THEN 1 ELSE 0) ELSE x.v[1]
Scale(x) == IF x.t = "float" THEN x.v[2] ELSE 0

\* x < y, x == y and x + y of two numbers.  A sum of floats is the sum of
\* the decimals: the error of a binary sum of amounts is far below the half
\* cent that round(x, 2) decides on.
PyLess(x, y) == Mant(x) * Pow10(Scale(y)) < Mant(y) * Pow10(Scale(x))

PyEq(x, y) ==
  IF IsNumber(x) /\ IsNumber(y)
    THEN Mant(x) * Pow10(Scale(y)) = Mant(y) * Pow10(Scale(x))
    ELSE x = y

PyAdd(x, y) ==
  IF x.t = "float" \/ y.t = "float"
    THEN LET s == IF Scale(x) > Scale(y) THEN Scale(x) ELSE Scale(y)
         IN  PyFloat(Mant(x) * Pow10(s - Scale(x)) + Mant(y) * Pow10(s - Scale(y)), s)
    ELSE PyInt(Mant(x) + Mant(y))

\* round(x, 2) of a number: an int stays an int; of a float, the nearest
\* multiple of 0.01.  A decimal of three or more digits that ends half way
\* between two of them goes to the even one here; Python rounds the binary
\* float nearest to the decimal, which lies to one side of the half (2.675
\* gives 2.67).  No amount that add_expense stores has more than two
\* digits, so no sum of them has.
PyRound2(x) ==
  IF x.t # "float" THEN PyInt(Mant(x))
  ELSE IF Scale(x) <= 2 THEN x
  ELSE LET u == Pow10(Scale(x) - 2)
           q == Mant(x) \div u
           r == Mant(x) % u
       IN  IF 2 * r < u THEN PyFloat(q, 2)
           ELSE IF 2 * r > u THEN PyFloat(q + 1, 2)
           ELSE IF q % 2 = 0 THEN PyFloat(q, 2) ELSE PyFloat(q + 1, 2)

\* dict: d[k] = v, d.get(k, default), k in d.
RECURSIVE DictSet(_, _, _)
DictSet(items, k, v) ==
  IF items = << >> THEN << <<k, v>> >>
  ELSE IF PyEq(Head(items)[1], k) THEN << <<Head(items)[1], v>> >> \o Tail(items)
  ELSE << Head(items) >> \o DictSet(Tail(items), k, v)

HasKey(d, k) == \E i \in 1..Len(d.v) : PyEq(d.v[i][1], k)

DictGet(d, k, default) ==
  IF HasKey(d, k)
    THEN d.v[CHOOSE i \in 1..Len(d.v) : PyEq(d.v[i][1], k)][2]
    ELSE default

\* ------------------------------------------------------------------- text
\*
\* A text is a string; its characters are numbered from 1.

\* The i-th character of s, "" past its end.
Ch(s, i) == IF 1 <= i /\ i <= Len(s) THEN SubSeq(s, i, i) ELSE ""

From(s, i) == SubSeq(s, i, Len(s))

IsWs(c) == c \in {" ", "\t", "\n", "\r"}

IsDigit(c) == c \in {"0", "1", "2", "3", "4", "5", "6", "7", "8", "9"}

DigitVal(c) ==
  CASE c = "0" -> 0 [] c = "1" -> 1 [] c = "2" -> 2 [] c = "3" -> 3
    [] c = "4" -> 4 [] c = "5" -> 5 [] c = "6" -> 6 [] c = "7" -> 7
    [] c = "8" -> 8 [] c = "9" -> 9

DigitChar(n) == Ch("0123456789", n + 1)

RECURSIVE IntStr(_)
\* str(n)
IntStr(n) ==
  IF n < 0 THEN "-" \o IntStr(-n)
  ELSE IF n < 10 THEN DigitChar(n)
  ELSE IntStr(n \div 10) \o DigitChar(n % 10)

RECURSIVE Padded(_, _)
\* The s digits of n < 10^s.
Padded(n, s) ==
  IF s = 0 THEN "" ELSE Padded(n \div 10, s - 1) \o DigitChar(n % 10)

\* repr(x) of the float m / 10^s: "10.0", "0.12", "-1.5".
FloatStr(m, s) ==
  LET a == IF m < 0 THEN -m ELSE m IN
  (IF m < 0 THEN "-" ELSE "")
    \o IntStr(a \div Pow10(s)) \o "."
    \o (IF s = 0 THEN "0" ELSE Padded(a % Pow10(s), s))

\* ---------------------------------------------------------------- json.dump

\* The characters json writes for one character of a string.
Escaped(c) ==
  CASE c = "\"" -> "\\\""
    [] c = "\\" -> "\\\\"
    [] c = "\n" -> "\\n"
    [] c = "\r" -> "\\r"
    [] c = "\t" -> "\\t"
    [] OTHER    -> c

RECURSIVE Escape(_, _)
Escape(s, i) == IF i > Len(s) THEN "" ELSE Escaped(Ch(s, i)) \o Escape(s, i + 1)

Quoted(s) == "\"" \o Escape(s, 1) \o "\""

RECURSIVE Dump(_, _)
RECURSIVE DumpItems(_, _, _, _)

\* The items i.. of the list or dict x, one to a line, each after the
\* indentation ind.
DumpItems(x, i, ind, sep) ==
  LET item == IF x.t = "list" THEN Dump(x.v[i], ind)
              ELSE Dump(x.v[i][1], ind) \o ": " \o Dump(x.v[i][2], ind)
  IN  IF i = Len(x.v) THEN item
      ELSE item \o sep \o DumpItems(x, i + 1, ind, sep)

\* json.dumps(x, indent=2) of a value that stands after the indentation ind.
Dump(x, ind) ==
  CASE x.t = "list" ->
         IF x.v = << >> THEN "[]"
         ELSE "[\n  " \o ind \o DumpItems(x, 1, ind \o "  ", ",\n  " \o ind)
                \o "\n" \o ind \o "]"
    [] x.t = "dict" ->
         IF x.v = << >> THEN "{}"
         ELSE "{\n  " \o ind \o DumpItems(x, 1, ind \o "  ", ",\n  " \o ind)
                \o "\n" \o ind \o "}"
    [] x.t = "str"   -> Quoted(x.v[1])
    [] x.t = "int"   -> IntStr(x.v[1])
    [] x.t = "float" -> FloatStr(x.v[1], x.v[2])
    [] x.t = "bool"  -> IF x.v[1] THEN "true" ELSE "false"
    [] OTHER         -> "null"

\* ---------------------------------------------------------------- json.load

NoParse == [ok |-> FALSE, v |-> PyNone, i |-> 0]

Parsed(v, i) == [ok |-> TRUE, v |-> v, i |-> i]

RECURSIVE SkipWs(_, _)
\* The first position from i on that holds no white space.
SkipWs(s, i) == IF IsWs(Ch(s, i)) THEN SkipWs(s, i + 1) ELSE i

RECURSIVE SkipDigits(_, _)
SkipDigits(s, i) == IF IsDigit(Ch(s, i)) THEN SkipDigits(s, i + 1) ELSE i

RECURSIVE DigitsVal(_, _, _)
\* The number that the digits s[i..j-1] spell after the digits of n.
DigitsVal(s, i, j) ==
  IF i >= j THEN 0
  ELSE DigitsVal(s, i, j - 1) * 10 + DigitVal(Ch(s, j - 1))

\* The character that an escape \c stands for, "" for none.
Unescaped(c) ==
  CASE c = "\"" -> "\""
    [] c = "\\" -> "\\"
    [] c = "/"  -> "/"
    [] c = "n"  -> "\n"
    [] c = "r"  -> "\r"
    [] c = "t"  -> "\t"
    [] OTHER    -> ""

\* A character that stands for a byte that is not UTF-8 text.
NotUtf8 == "#"

RECURSIVE ScanString(_, _, _)
\* The string whose opening quote stands before position i, after the
\* characters acc of it.
ScanString(s, i, acc) ==
  LET c == Ch(s, i) IN
  IF c = "" \/ c = "\n" \/ c = "\r" \/ c = "\t" \/ c = NotUtf8 THEN NoParse
  ELSE IF c = "\"" THEN Parsed(PyStr(acc), i + 1)
  ELSE IF c = "\\"
    THEN IF Unescaped(Ch(s, i + 1)) = "" THEN NoParse
         ELSE ScanString(s, i + 2, acc \o Unescaped(Ch(s, i + 1)))
  ELSE ScanString(s, i + 1, acc \o c)

\* A number at position i: -?(0|[1-9][0-9]*)(\.[0-9]+)?
ScanNumber(s, i) ==
  LET neg  == Ch(s, i) = "-"
      j    == IF neg THEN i + 1 ELSE i
      e    == IF Ch(s, j) = "0" THEN j + 1 ELSE SkipDigits(s, j)
      frac == Ch(s, e) = "." /\ IsDigit(Ch(s, e + 1))
      f    == SkipDigits(s, e + 1)
      sign == IF neg THEN -1 ELSE 1
  IN  IF ~IsDigit(Ch(s, j)) THEN NoParse
      ELSE IF frac
        THEN Parsed(PyFloat(sign * (DigitsVal(s, j, e) * Pow10(f - e - 1)
                                      + DigitsVal(s, e + 1, f)),
                            f - e - 1), f)
        ELSE Parsed(PyInt(sign * DigitsVal(s, j, e)), e)

RECURSIVE ScanValue(_, _)
RECURSIVE ScanItems(_, _, _)
RECURSIVE ScanMembers(_, _, _)

\* The items of an array from position i on, after the items acc.
ScanItems(s, i, acc) ==
  LET x == ScanValue(s, i)
      j == SkipWs(s, x.i)
  IN  IF ~x.ok THEN NoParse
      ELSE IF Ch(s, j) = "]" THEN Parsed(PyList(Append(acc, x.v)), j + 1)
      ELSE IF Ch(s, j) = ","
        THEN ScanItems(s, SkipWs(s, j + 1), Append(acc, x.v))
      ELSE NoParse

\* The members of an object from position i on, after the members acc.
ScanMembers(s, i, acc) ==
  LET k == ScanString(s, i + 1, "")
      c == SkipWs(s, k.i)
      x == ScanValue(s, SkipWs(s, c + 1))
      j == SkipWs(s, x.i)
  IN  IF Ch(s, i) # "\"" \/ ~k.ok \/ Ch(s, c) # ":" \/ ~x.ok THEN NoParse
      ELSE IF Ch(s, j) = "}" THEN Parsed(PyDict(DictSet(acc, k.v, x.v)), j + 1)
      ELSE IF Ch(s, j) = ","
        THEN ScanMembers(s, SkipWs(s, j + 1), DictSet(acc, k.v, x.v))
      ELSE NoParse

\* The JSON value at position i.
ScanValue(s, i) ==
  LET c == Ch(s, i) IN
  CASE c = "\"" -> ScanString(s, i + 1, "")
    [] c = "[" ->
         LET j == SkipWs(s, i + 1) IN
         IF Ch(s, j) = "]" THEN Parsed(PyList(<< >>), j + 1)
         ELSE ScanItems(s, j, << >>)
    [] c = "{" ->
         LET j == SkipWs(s, i + 1) IN
         IF Ch(s, j) = "}" THEN Parsed(PyDict(<< >>), j + 1)
         ELSE ScanMembers(s, j, << >>)
    [] c = "-" \/ IsDigit(c) -> ScanNumber(s, i)
    [] i + 3 <= Len(s) /\ SubSeq(s, i, i + 3) = "null" -> Parsed(PyNone, i + 4)
    [] i + 3 <= Len(s) /\ SubSeq(s, i, i + 3) = "true" -> Parsed(PyBool(TRUE), i + 4)
    [] i + 4 <= Len(s) /\ SubSeq(s, i, i + 4) = "false" -> Parsed(PyBool(FALSE), i + 5)
    [] OTHER -> NoParse

\* json.load of a file that holds the text s: the value, or the exception
\* (the text is decoded before it is parsed).
json_load(s) ==
  LET x == ScanValue(s, SkipWs(s, 1)) IN
  IF x.ok /\ SkipWs(s, x.i) > Len(s) THEN x.v
  ELSE IF \E i \in 1..Len(s) : Ch(s, i) = NotUtf8 THEN Raise("UnicodeDecodeError")
  ELSE Raise("JSONDecodeError")
\* ------------------------------------------------------------ str methods

Uppers == "ABCDEFGHIJKLMNOPQRSTUVWXYZ"

Lowers == "abcdefghijklmnopqrstuvwxyz"

LowerCh(c) ==
  IF \E i \in 1..Len(Uppers) : Ch(Uppers, i) = c
    THEN Ch(Lowers, CHOOSE i \in 1..Len(Uppers) : Ch(Uppers, i) = c)
    ELSE c

RECURSIVE LowerFrom(_, _)
LowerFrom(s, i) == IF i > Len(s) THEN "" ELSE LowerCh(Ch(s, i)) \o LowerFrom(s, i + 1)

\* str.lower()
lower(s) == LowerFrom(s, 1)

RECURSIVE lstrip(_)
lstrip(s) == IF IsWs(Ch(s, 1)) THEN lstrip(From(s, 2)) ELSE s

RECURSIVE rstrip(_)
rstrip(s) == IF IsWs(Ch(s, Len(s))) THEN rstrip(SubSeq(s, 1, Len(s) - 1)) ELSE s

\* str.strip()
strip(s) == rstrip(lstrip(s))

\* datetime.isoformat() of the clock reading number t: a time in the
\* seconds after 01:07:40, with the digits of the microsecond unless the
\* microsecond is 0.
isoformat(t, micro) ==
  "2026-10-29T01:07:" \o IntStr(40 + t) \o (IF micro THEN ".123456" ELSE "")

\* ------------------------------------------------------------ DataHandler

\* The file that holds the text s.
FileOf(s) == [exists |-> TRUE, text |-> s, val |-> json_load(s)]

MissingFile ==
  [exists |-> FALSE, text |-> "", val |-> Raise("FileNotFoundError")]

\* DataHandler.load_expenses: the value it returns, or the exception that
\* leaves it.  Only FileNotFoundError and JSONDecodeError are caught.
load_expenses(f) ==
  IF f.val.t = "raise" /\ f.val.v[1] \in {"FileNotFoundError", "JSONDecodeError"}
    THEN PyList(<< >>)
    ELSE f.val

\* open(self.filename, 'w'): the file exists afterwards and is empty.
open_w(f) == FileOf("")

\* The file after the first k characters of the text s have been written
\* at offset 0 of f (the handle was opened before, so f may hold what
\* another process wrote since): what f holds behind them stays.
write_text(f, s, k) ==
  IF k = 0 THEN f ELSE FileOf(SubSeq(s, 1, k) \o From(f.text, k + 1))

\* ---------------------------------------------------------- ExpenseManager

\* A variant of valid_amount that rejects only negative amounts.
valid_amount_nonneg(n) == n >= 0

\* add_expense: `if amount <= 0: raise ValueError`
valid_amount(n) == n > 0

\* add_expense: `if category not in self.categories: raise ValueError`
valid_category(c) == c \in CategorySet

Key(name) == PyStr(name)

\* x['name'] of a dict that has the key.
Field(x, name) == DictGet(x, Key(name), PyNone)

RECURSIVE MaxFrom(_, _, _)
MaxFrom(xs, i, best) ==
  IF i > Len(xs) THEN best
  ELSE MaxFrom(xs, i + 1, IF PyLess(best, xs[i]) THEN xs[i] ELSE best)

\* max(xs, default=0) of numbers: the first of the greatest.
py_max(xs) == IF xs = << >> THEN PyInt(0) ELSE MaxFrom(xs, 2, xs[1])

\* Variants of next_id: the number of ids plus one; the number of ids; the
\* maximum without the increment.
next_id_len(ids) == PyInt(Len(ids) + 1)

next_id_count(ids) == PyInt(Len(ids))

next_id_max(ids) == py_max(ids)

\* _generate_id's return expression over the ids of the list it loaded.
next_id(ids) == PyAdd(py_max(ids), PyInt(1))

\* ExpenseManager._generate_id, given what get_all_expenses() returned.
\* Iterating a number raises TypeError; an item that is no dict (a key of
\* a top-level dict, a character of a top-level string) has no get();
\* an id that is no number cannot be incremented.
generate_id(r) ==
  CASE r.t = "raise" -> r
    [] r.t = "list"  ->
         LET ids == [i \in 1..Len(r.v) |-> DictGet(r.v[i], Key("id"), PyInt(0))]
         IN  IF \E i \in 1..Len(r.v) : r.v[i].t # "dict"
               THEN Raise("AttributeError")
             ELSE IF \E i \in 1..Len(ids) : ~IsNumber(ids[i])
               THEN Raise("TypeError")
             ELSE next_id(ids)
    [] r.t = "dict"  -> IF r.v = << >> THEN next_id(<< >>) ELSE Raise("AttributeError")
    [] r.t = "str"   -> IF r.v[1] = "" THEN next_id(<< >>) ELSE Raise("AttributeError")
    [] OTHER         -> Raise("TypeError")

\* The dict literal of add_expense: id is what _generate_id returned, now
\* is datetime.now().isoformat().
new_expense(id, a, now) ==
  PyDict(<< <<Key("id"), id>>,
            <<Key("amount"), PyFloat(round2(a.amount), 2)>>,
            <<Key("category"), PyStr(a.category)>>,
            <<Key("description"), PyStr(strip(a.description))>>,
            <<Key("date"), PyStr(now)>> >>)

\* A variant of append_expense that leaves the list as it was loaded.
append_forgotten(r, e) ==
  CASE r.t = "raise" -> r
    [] r.t = "list"  -> r
    [] OTHER         -> Raise("AttributeError")

\* `expenses.append(expense)` on what load_expenses() returned.
append_expense(r, e) ==
  CASE r.t = "raise" -> r
    [] r.t = "list"  -> PyList(Append(r.v, e))
    [] OTHER         -> Raise("AttributeError")

\* The items a `for` loop over r visits: the items of a list, the keys of a
\* dict, the characters of a string.
Items(r) ==
  CASE r.t = "list" -> r.v
    [] r.t = "dict" -> [i \in 1..Len(r.v) |-> r.v[i][1]]
    [] r.t = "str"  -> [i \in 1..Len(r.v[1]) |-> PyStr(Ch(r.v[1], i))]

Iterable(r) == r.t \in {"list", "dict", "str"}

\* e['name']: the value, or the exception.
Subscript(e, name) ==
  IF e.t # "dict" THEN Raise("TypeError")
  ELSE IF ~HasKey(e, Key(name)) THEN Raise("KeyError")
  ELSE Field(e, name)

\* A variant of summary_add that stores the amount instead of adding it.
summary_overwrite(summary, e) ==
  LET c == Subscript(e, "category")
      a == Subscript(e, "amount")
  IN  IF summary.t = "raise" THEN summary
      ELSE IF c.t = "raise" THEN c
      ELSE IF c.t \in {"list", "dict"} THEN Raise("TypeError")
      ELSE IF a.t = "raise" THEN a
      ELSE IF ~IsNumber(a) THEN Raise("TypeError")
      ELSE PyDict(DictSet(summary.v, c, a))

\* One turn of the loop of get_category_summary:
\*   category = expense['category']
\*   summary[category] = summary.get(category, 0) + expense['amount']
\* on the summary so far, or on the exception that has ended the loop.
summary_add(summary, e) ==
  LET c == Subscript(e, "category")
      a == Subscript(e, "amount")
  IN  IF summary.t = "raise" THEN summary
      ELSE IF c.t = "raise" THEN c
      ELSE IF c.t \in {"list", "dict"} THEN Raise("TypeError")
      ELSE IF a.t = "raise" THEN a
      ELSE IF ~IsNumber(a) THEN Raise("TypeError")
      ELSE PyDict(DictSet(summary.v, c, PyAdd(DictGet(summary, c, PyInt(0)), a)))

RECURSIVE summary_loop(_, _, _)
summary_loop(xs, i, summary) ==
  IF i > Len(xs) THEN summary
  ELSE summary_loop(xs, i + 1, summary_add(summary, xs[i]))

\* {k: round(v, 2) for k, v in summary.items()}
summary_rounded(summary) ==
  IF summary.t = "raise" THEN summary
  ELSE PyDict([i \in 1..Len(summary.v) |->
                 << summary.v[i][1], PyRound2(summary.v[i][2]) >>])

\* ExpenseManager.get_category_summary
get_category_summary(r) ==
  CASE r.t = "raise" -> r
    [] Iterable(r)   -> summary_rounded(summary_loop(Items(r), 1, PyDict(<< >>)))
    [] OTHER         -> Raise("TypeError")

RECURSIVE sum_amounts(_, _, _)
\* sum(exp['amount'] for exp in expenses), from the i-th item on, after total.
sum_amounts(xs, i, total) ==
  IF i > Len(xs) THEN total
  ELSE LET a == Subscript(xs[i], "amount") IN
       IF a.t = "raise" THEN a
       ELSE IF ~IsNumber(a) THEN Raise("TypeError")
       ELSE sum_amounts(xs, i + 1, PyAdd(total, a))

\* ExpenseManager.calculate_total() without an argument.
calculate_total(r) ==
  CASE r.t = "raise" -> r
    [] Iterable(r)   ->
         LET total == sum_amounts(Items(r), 1, PyInt(0)) IN
         IF total.t = "raise" THEN total ELSE PyRound2(total)
    [] OTHER         -> Raise("TypeError")

RECURSIVE filter_category(_, _, _, _)
\* [exp for exp in expenses if exp['category'].lower() == category.lower()],
\* from the i-th item on, after the items acc.
filter_category(xs, i, c, acc) ==
  IF i > Len(xs) THEN PyList(acc)
  ELSE LET x == Subscript(xs[i], "category") IN
       IF x.t = "raise" THEN x
       ELSE IF x.t # "str" THEN Raise("AttributeError")
       ELSE filter_category(xs, i + 1, c,
              IF lower(x.v[1]) = lower(c) THEN Append(acc, xs[i]) ELSE acc)

\* ExpenseManager.get_expenses_by_category
get_expenses_by_category(r, c) ==
  CASE r.t = "raise" -> r
    [] Iterable(r)   -> filter_category(Items(r), 1, c, << >>)
    [] OTHER         -> Raise("TypeError")

\* ExpenseManager.get_categories
get_categories == PyList([i \in 1..Len(categories) |-> PyStr(categories[i])])

\* ------------------------------------------------------------------ state
\*
\* file       the backing file (expenses.json)
\* clock      the number of datetime.now() readings taken so far
\* budget     the number of calls that may still be made
\* faults     the number of open() and write() calls that have raised OSError
\* pc[w]      where process w is: "start" (DataHandler.__init__ has not run),
\*            "ensure_open", "ensure_dump" (inside ensure_file_exists),
\*            "idle" (constructed, not in a call), "gen_id", "load",
\*            "save_open", "save_write" (inside add_expense), "crashed" (an
\*            exception left the constructor); "off" for a process that
\*            does not run
\* args[w]    the arguments of w's add_expense call
\* expense[w], expenses[w]   the locals of add_expense
\* seen[w]    the local `expenses` of _generate_id: what the id was computed
\*            from
\* last       the operation that has just completed: its name, its arguments,
\*            what get_all_expenses() returned when it began and what it
\*            returned or raised; empty once another step is taken
\* Observations that the claims are stated over (no code reads them):
\* before[w]  what get_all_expenses() returned when w's call began
\* stale      some call appended to a read of the file that differed from
\*            the read its id was computed from
\* clobbered  some write (of a save, or of ensure_file_exists) destroyed
\*            file content that its caller had not read
\* failed     some save_expenses call returned False
\* acked      the records whose add_expense call returned True

NoLast == [op |-> "", args |-> NoArgs, before |-> PyNone, r |-> PyNone]

\* The records that get_all_expenses() returns, none if it returns no list.
Persisted(f) == LET r == load_expenses(f) IN IF r.t = "list" THEN r.v ELSE << >>

Front(s) == SubSeq(s, 1, Len(s) - 1)

InitLocals ==
  /\ clock = 0
  /\ faults = 0
  /\ args = [w \in Writers |-> NoArgs]
  /\ expense = [w \in Writers |-> PyNone]
  /\ expenses = [w \in Writers |-> PyNone]
  /\ seen = [w \in Writers |-> PyNone]
  /\ before = [w \in Writers |-> PyNone]
  /\ last = NoLast
  /\ stale = FALSE
  /\ clobbered = FALSE
  /\ failed = FALSE
  /\ acked = {}

\* One process about to be constructed, and no file.
Init ==
  /\ file = MissingFile
  /\ budget = MaxCalls
  /\ pc = [w \in Writers |-> IF w = 1 THEN "start" ELSE "off"]
  /\ InitLocals

\* Records of a file that an earlier run, or another program, left behind.
PriorA ==
  PyDict(<< <<Key("id"), PyInt(5)>>,
            <<Key("amount"), PyFloat(1000, 2)>>,
            <<Key("category"), PyStr("Food")>>,
            <<Key("description"), PyStr("a")>>,
            <<Key("date"), PyStr(isoformat(0, TRUE))>> >>)

PriorB ==
  PyDict(<< <<Key("id"), PyInt(2)>>,
            <<Key("amount"), PyFloat(12, 2)>>,
            <<Key("category"), PyStr("Bills")>>,
            <<Key("description"), PyStr("")>>,
            <<Key("date"), PyStr(isoformat(0, FALSE))>> >>)

\* What the file may hold before the program starts: nothing, the text of
\* a list of records, bytes that are no text, no character, text that is no
\* JSON, and JSON that is no list of records.
PriorFiles ==
  { MissingFile,
    FileOf(Dump(PyList(<< >>), "")),
    FileOf(Dump(PyList(<< PriorA >>), "")),
    FileOf(Dump(PyList(<< PriorA, PriorB >>), "")),
    FileOf(NotUtf8 \o NotUtf8),
    FileOf(""),
    FileOf("[\n  {\n "),
    FileOf("{}"),
    FileOf("42"),
    FileOf("[1, {\"id\": \"7\"}]") }

\* One process about to be constructed, any file.
InitAny ==
  /\ file \in PriorFiles
  /\ budget = MaxCallsAny
  /\ pc = [w \in Writers |-> IF w = 1 THEN "start" ELSE "off"]
  /\ InitLocals

\* Two processes about to be constructed on the same file name, and no file.
InitTwo ==
  /\ file = MissingFile
  /\ budget = MaxCallsTwo
  /\ pc = [w \in Writers |-> "start"]
  /\ InitLocals

\* json.dump([], file) of ensure_file_exists: the text of the empty list.
EmptyText == "[]"

\* json.dump(expenses, file, indent=2) of save_expenses.
SaveText(r) == Dump(r, "")

\* How many characters of the text s reach the file: all of them, or, when
\* the write or the close raises OSError, any number of them short of all.
WriteLengths(s) == 0..Len(s)

\* An open() or a write() may raise.
MayFail == faults < MaxFaults

\* The steps of the constructor leave the variables of add_expense alone.
Constructing ==
  /\ last' = NoLast
  /\ UNCHANGED <<clock, budget, args, expense, expenses, seen, before, stale,
                 failed, acked>>

\* ensure_file_exists, line 16: `if not os.path.exists(self.filename)`.
EnsureFileExists(w) ==
  /\ pc[w] = "start"
  /\ pc' = [pc EXCEPT ![w] = IF file.exists THEN "idle" ELSE "ensure_open"]
  /\ Constructing
  /\ UNCHANGED <<file, faults, clobbered>>

\* ensure_file_exists, line 17: open(self.filename, 'w') either raises, and
\* the exception leaves the constructor, or creates or truncates the file.
EnsureOpen(w) ==
  /\ pc[w] = "ensure_open"
  /\ \/ /\ MayFail
        /\ faults' = faults + 1
        /\ pc' = [pc EXCEPT ![w] = "crashed"]
        /\ UNCHANGED <<file, clobbered>>
     \/ /\ file' = open_w(file)
        /\ clobbered' = (clobbered \/ Persisted(file) # << >>)
        /\ pc' = [pc EXCEPT ![w] = "ensure_dump"]
        /\ UNCHANGED faults
  /\ Constructing

\* ensure_file_exists, line 18: json.dump([], file) and the close of the file.
EnsureDump(w) ==
  /\ pc[w] = "ensure_dump"
  /\ \E k \in WriteLengths(EmptyText) :
       /\ k < Len(EmptyText) => MayFail
       /\ faults' = IF k < Len(EmptyText) THEN faults + 1 ELSE faults
       /\ file' = write_text(file, EmptyText, k)
       /\ pc' = [pc EXCEPT ![w] = IF k = Len(EmptyText) THEN "idle" ELSE "crashed"]
       /\ clobbered' = (clobbered \/ (k > 0 /\ file.text # ""))
  /\ Constructing

\* add_expense returns or raises r: the locals are gone.
Return(w, r) ==
  /\ pc' = [pc EXCEPT ![w] = "idle"]
  /\ last' = [op |-> "add_expense", args |-> args[w], before |-> before[w], r |-> r]
  /\ args' = [args EXCEPT ![w] = NoArgs]
  /\ before' = [before EXCEPT ![w] = PyNone]
  /\ expense' = [expense EXCEPT ![w] = PyNone]
  /\ expenses' = [expenses EXCEPT ![w] = PyNone]
  /\ seen' = [seen EXCEPT ![w] = PyNone]

\* add_expense, lines 16-22: the call and its validation.
AddExpenseCall(w, a) ==
  /\ pc[w] = "idle"
  /\ budget > 0
  /\ budget' = budget - 1
  /\ IF ~valid_amount(a.amount)
       THEN /\ last' = [op |-> "add_expense", args |-> a,
                        before |-> load_expenses(file),
                        r |-> Raise("ValueError: Amount must be positive")]
            /\ UNCHANGED <<pc, args, before>>
       ELSE IF ~valid_category(a.category)
       THEN /\ last' = [op |-> "add_expense", args |-> a,
                        before |-> load_expenses(file),
                        r |-> Raise("ValueError: Invalid category")]
            /\ UNCHANGED <<pc, args, before>>
       ELSE /\ last' = NoLast
            /\ args' = [args EXCEPT ![w] = a]
            /\ before' = [before EXCEPT ![w] = load_expenses(file)]
            /\ pc' = [pc EXCEPT ![w] = "gen_id"]
  /\ UNCHANGED <<file, clock, faults, expense, expenses, seen, stale, clobbered,
                 failed, acked>>

\* add_expense, lines 24-30: the expense is built, its id from a first read
\* of the file, its date from the clock.
AddExpenseBuild(w) ==
  /\ pc[w] = "gen_id"
  /\ LET r == load_expenses(file)
         g == generate_id(r)
     IN  IF g.t = "raise"
           THEN /\ Return(w, g)
                /\ clock' = clock
           ELSE /\ seen' = [seen EXCEPT ![w] = r]
                /\ \E m \in BOOLEAN :
                     expense' = [expense EXCEPT ![w] =
                        new_expense(g, args[w], isoformat(clock + 1, m))]
                /\ clock' = clock + 1
                /\ pc' = [pc EXCEPT ![w] = "load"]
                /\ last' = NoLast
                /\ UNCHANGED <<args, before, expenses>>
  /\ UNCHANGED <<file, budget, faults, stale, clobbered, failed, acked>>

\* add_expense, lines 32-33: a second read of the file, and the append.
AddExpenseLoad(w) ==
  /\ pc[w] = "load"
  /\ LET r == load_expenses(file)
         l == append_expense(r, expense[w])
     IN  IF l.t = "raise"
           THEN /\ Return(w, l)
                /\ stale' = stale
           ELSE /\ expenses' = [expenses EXCEPT ![w] = l]
                /\ pc' = [pc EXCEPT ![w] = "save_open"]
                /\ stale' = (stale \/ r # seen[w])
                /\ last' = NoLast
                /\ UNCHANGED <<args, before, expense, seen>>
  /\ UNCHANGED <<file, clock, budget, faults, clobbered, failed, acked>>

\* save_expenses, line 31: open(self.filename, 'w') either raises (the
\* handler returns False, the file is as it was) or truncates the file.
SaveOpen(w) ==
  /\ pc[w] = "save_open"
  /\ \/ /\ MayFail
        /\ faults' = faults + 1
        /\ Return(w, PyBool(FALSE))
        /\ failed' = TRUE
        /\ UNCHANGED <<file, clobbered>>
     \/ /\ file' = open_w(file)
        /\ clobbered' = (clobbered \/ Persisted(file) # Front(expenses[w].v))
        /\ pc' = [pc EXCEPT ![w] = "save_write"]
        /\ last' = NoLast
        /\ UNCHANGED <<faults, args, before, expense, expenses, seen, failed>>
  /\ UNCHANGED <<clock, budget, stale, acked>>

\* save_expenses, lines 32-36: json.dump and the close of the file; add_expense
\* returns what save_expenses returns.
SaveWrite(w) ==
  /\ pc[w] = "save_write"
  /\ \E s \in {SaveText(expenses[w])} : \E k \in WriteLengths(s) :
       /\ k < Len(s) => MayFail
       /\ faults' = IF k < Len(s) THEN faults + 1 ELSE faults
       /\ file' = write_text(file, s, k)
       /\ Return(w, PyBool(k = Len(s)))
       /\ failed' = (failed \/ k < Len(s))
       /\ acked' = IF k = Len(s) THEN acked \cup {expense[w]} ELSE acked
       /\ clobbered' = (clobbered \/ (k > 0 /\ file.text # ""))
  /\ UNCHANGED <<clock, budget, stale>>

\* The queries: each is one read of the file and changes nothing.
GetAllExpenses(w) ==
  /\ pc[w] = "idle"
  /\ budget > 0
  /\ budget' = budget - 1
  /\ last' = [op |-> "get_all_expenses", args |-> NoArgs,
              before |-> load_expenses(file),
              r |-> load_expenses(file)]
  /\ UNCHANGED <<file, clock, faults, pc, args, expense, expenses, seen, before,
                 stale, clobbered, failed, acked>>

GetExpensesByCategory(w, c) ==
  /\ pc[w] = "idle"
  /\ budget > 0
  /\ budget' = budget - 1
  /\ last' = [op |-> "get_expenses_by_category",
              args |-> [NoArgs EXCEPT !.category = c],
              before |-> load_expenses(file),
              r |-> get_expenses_by_category(load_expenses(file), c)]
  /\ UNCHANGED <<file, clock, faults, pc, args, expense, expenses, seen, before,
                 stale, clobbered, failed, acked>>

CalculateTotal(w) ==
  /\ pc[w] = "idle"
  /\ budget > 0
  /\ budget' = budget - 1
  /\ last' = [op |-> "calculate_total", args |-> NoArgs,
              before |-> load_expenses(file),
              r |-> calculate_total(load_expenses(file))]
  /\ UNCHANGED <<file, clock, faults, pc, args, expense, expenses, seen, before,
                 stale, clobbered, failed, acked>>

GetCategorySummary(w) ==
  /\ pc[w] = "idle"
  /\ budget > 0
  /\ budget' = budget - 1
  /\ last' = [op |-> "get_category_summary", args |-> NoArgs,
              before |-> load_expenses(file),
              r |-> get_category_summary(load_expenses(file))]
  /\ UNCHANGED <<file, clock, faults, pc, args, expense, expenses, seen, before,
                 stale, clobbered, failed, acked>>

GetCategories(w) ==
  /\ pc[w] = "idle"
  /\ budget > 0
  /\ budget' = budget - 1
  /\ last' = [op |-> "get_categories", args |-> NoArgs,
              before |-> load_expenses(file),
              r |-> get_categories]
  /\ UNCHANGED <<file, clock, faults, pc, args, expense, expenses, seen, before,
                 stale, clobbered, failed, acked>>

Next ==
  \E w \in Writers :
    \/ EnsureFileExists(w)
    \/ EnsureOpen(w)
    \/ EnsureDump(w)
    \/ \E a \in AddInputs : AddExpenseCall(w, a)
    \/ AddExpenseBuild(w)
    \/ AddExpenseLoad(w)
    \/ SaveOpen(w)
    \/ SaveWrite(w)
    \/ GetAllExpenses(w)
    \/ \E c \in CategoryInputs : GetExpensesByCategory(w, c)
    \/ CalculateTotal(w)
    \/ GetCategorySummary(w)
    \/ GetCategories(w)

Spec == Init /\ [][Next]_vars

SpecAny == InitAny /\ [][Next]_vars

SpecTwo == InitTwo /\ [][Next]_vars

\* ----------------------------------------------------------------- claims

IsPrefix(s, t) == Len(s) <= Len(t) /\ SubSeq(t, 1, Len(s)) = s

\* The arguments that the spec calls valid.
ValidInput(a) == a.amount > 0 /\ a.category \in CategorySet

AddDone == last.op = "add_expense"

\* An expense record with an integer id, the only ones whose ids compare
\* as integers.
HasIntId(e) == e.t = "dict" /\ HasKey(e, Key("id")) /\ Field(e, "id").t = "int"

IdInt(e) == Field(e, "id").v[1]

\* The greatest id of records with integer ids, 0 for no record, stated
\* without recursion.
GreatestId(recs) ==
  IF recs = << >> THEN 0
  ELSE CHOOSE m \in { IdInt(recs[i]) : i \in 1..Len(recs) } :
         \A i \in 1..Len(recs) : IdInt(recs[i]) <= m

\* The amount of a record in cents (stored amounts have at most 2 decimals).
Cents(e) == Mant(Field(e, "amount")) * Pow10(2 - Scale(Field(e, "amount")))

\* C1, as stated: after add_expense with a valid input, whatever the store
\* held, get_all_expenses() yields exactly one more record than before the
\* call; the new record's amount is the input rounded to 2 decimals and
\* its id is the previous maximum id plus one.
C1_Original ==
  (AddDone /\ ValidInput(last.args) /\ last.before.t = "list") =>
    LET old == last.before.v
        new == load_expenses(file)
    IN  /\ new.t = "list"
        /\ Len(new.v) = Len(old) + 1
        /\ \A i \in 1..Len(new.v) : HasIntId(new.v[i])
        /\ Field(new.v[Len(new.v)], "amount") = PyFloat(round2(last.args.amount), 2)
        /\ IdInt(new.v[Len(new.v)]) = GreatestId(old) + 1

\* C1, amended: whenever add_expense returns True, get_all_expenses() had
\* returned a collection before the call and returns exactly one more record
\* after it; the new record is the last one, its amount is the input rounded
\* to 2 decimals (a tie going to the even cent) and its id is the previous
\* maximum id plus one, 1 for an empty collection.
C1_AddExtendsOnSuccess ==
  (AddDone /\ last.r = PyBool(TRUE)) =>
    LET new == load_expenses(file)
    IN  /\ ValidInput(last.args)
        /\ last.before.t = "list"
        /\ new.t = "list"
        /\ Len(new.v) = Len(last.before.v) + 1
        /\ Front(new.v) = last.before.v
        /\ \A i \in 1..Len(new.v) : HasIntId(new.v[i])
        /\ Field(new.v[Len(new.v)], "amount") = PyFloat(round2(last.args.amount), 2)
        /\ IdInt(new.v[Len(new.v)]) = GreatestId(last.before.v) + 1

\* A successful add on a store whose ids are not 1..n, with an amount that
\* lies on a rounding tie.
C1_Witness ==
  /\ AddDone
  /\ last.r = PyBool(TRUE)
  /\ last.before.t = "list"
  /\ Len(last.before.v) >= 1
  /\ GreatestId(last.before.v) > Len(last.before.v)
  /\ last.args.amount = 32
  /\ Cents(Persisted(file)[Len(Persisted(file))]) = 12

\* C2: add_expense with amount <= 0 or with a category outside the category
\* list raises ValueError in the step of the call: the file is not touched,
\* the call goes no further (no read, no save), and get_all_expenses()
\* returns afterwards what it returned before.  No call with such arguments
\* is ever past validation.
C2_InvalidRejected ==
  [][ /\ (last'.op = "add_expense" /\ ~ValidInput(last'.args)) =>
          /\ last'.r \in { Raise("ValueError: Amount must be positive"),
                           Raise("ValueError: Invalid category") }
          /\ (last'.args.amount <= 0 =>
                last'.r = Raise("ValueError: Amount must be positive"))
          /\ file' = file
          /\ pc' = pc
          /\ load_expenses(file') = last'.before
      /\ \A w \in Writers :
           pc'[w] \in {"gen_id", "load", "save_open", "save_write"}
             => ValidInput(args'[w])
    ]_vars

\* A rejected call on a store that holds records.
C2_Witness ==
  /\ AddDone
  /\ last.r.t = "raise"
  /\ ~ValidInput(last.args)
  /\ last.before.t = "list"
  /\ Len(last.before.v) >= 1

\* C3, as stated: whenever save_expenses returned False, nothing was
\* persisted: load_expenses() returns what it returned before the save.
C3_Original ==
  (AddDone /\ last.r = PyBool(FALSE)) => load_expenses(file) = last.before

\* A list of records: what the spec calls a serialized collection.
IsCollection(x) == x.t = "list" /\ \A i \in 1..Len(x.v) : x.v[i].t = "dict"

\* C4, as stated: load_expenses() always returns a collection, and the empty
\* one whenever the file is missing, unreadable or not a serialized array of
\* records.
C4_Original ==
  (last.op = "get_all_expenses") =>
    /\ last.r.t = "list"
    /\ ~IsCollection(file.val) => last.r = PyList(<< >>)

\* C5: from a fresh store and with one process, every persisted expense has
\* an integer id >= 1 and no two persisted expenses have the same id.
C5_UniqueIds ==
  LET p == Persisted(file) IN
    /\ \A i \in 1..Len(p) : HasIntId(p[i]) /\ IdInt(p[i]) >= 1
    /\ \A i, j \in 1..Len(p) : i # j => IdInt(p[i]) # IdInt(p[j])

\* Two records are persisted after an earlier save has failed.
C5_Witness == failed /\ Len(Persisted(file)) >= 2

\* C6, as stated: every persisted expense has an amount greater than 0.
C6_Original ==
  LET p == Persisted(file) IN
    \A i \in 1..Len(p) : Mant(Field(p[i], "amount")) > 0

\* The sum, in cents, of the amounts of the records of category c, over the
\* indices I.
RECURSIVE SumOver(_, _, _)
SumOver(recs, c, I) ==
  IF I = {} THEN 0
  ELSE LET i == CHOOSE x \in I : TRUE IN
       (IF Field(recs[i], "category") = c THEN Cents(recs[i]) ELSE 0)
         + SumOver(recs, c, I \ {i})

\* C7: get_category_summary() returns a mapping whose keys are exactly the
\* categories of the persisted expenses, each once, and whose value for a
\* category is the sum of the amounts of its expenses; no expense, no entry.
C7_Summary ==
  (last.op = "get_category_summary") =>
    LET p == Persisted(file)
        m == last.r
    IN  /\ m.t = "dict"
        /\ { m.v[j][1] : j \in 1..Len(m.v) }
             = { Field(p[i], "category") : i \in 1..Len(p) }
        /\ \A j, k \in 1..Len(m.v) : j # k => m.v[j][1] # m.v[k][1]
        /\ \A j \in 1..Len(m.v) :
             m.v[j][2] = PyFloat(SumOver(p, m.v[j][1], 1..Len(p)), 2)
        /\ (p = << >> => m.v = << >>)

\* A summary over two expenses of one category with amounts above 0.
C7_Witness ==
  /\ last.op = "get_category_summary"
  /\ LET p == Persisted(file) IN
       /\ Len(p) = 2
       /\ Field(p[1], "category") = Field(p[2], "category")
       /\ Cents(p[1]) > 0
       /\ Cents(p[2]) > 0
       /\ Len(last.r.v) = 1

\* C8, as stated: the collection before an operation is a prefix of the
\* collection after it, and only an add_expense that returned True extends
\* it, by exactly one record.
C8_Original ==
  (last.op # "") =>
    LET old == IF last.before.t = "list" THEN last.before.v ELSE << >>
        new == Persisted(file)
    IN  /\ IsPrefix(old, new)
        /\ (new # old => /\ AddDone
                         /\ last.r = PyBool(TRUE)
                         /\ Len(new) = Len(old) + 1)

\* Two of the records have the same id.
HasDuplicateId(recs) ==
  \E i, j \in 1..Len(recs) :
    /\ i # j
    /\ recs[i].t = "dict" /\ HasKey(recs[i], Key("id"))
    /\ recs[j].t = "dict" /\ HasKey(recs[j], Key("id"))
    /\ Field(recs[i], "id") = Field(recs[j], "id")

\* C9: with two processes, two persisted records have the same id only after
\* some call appended its record to a read of the file that differed from
\* the read its id was computed from; and such a run exists (C9_Witness).
C9_DuplicateOnlyByRace == HasDuplicateId(Persisted(file)) => stale

\* Both calls returned True, no save failed, and the two records are
\* persisted with the same id.
C9_Witness ==
  /\ ~failed
  /\ \A w \in Writers : pc[w] = "idle"
  /\ Cardinality(acked) = 2
  /\ \A e \in acked : \E i \in 1..Len(Persisted(file)) : Persisted(file)[i] = e
  /\ HasDuplicateId(Persisted(file))

\* C10: with two processes and no failed save, a record whose add_expense
\* returned True is absent from the persisted collection (no save being
\* under way) only after some write, of a save or of the creation of the
\* file by a starting process, overwrote content that its caller had not
\* read; and such a run exists (C10_Witness).
C10_LostOnlyByOverwrite ==
  ( /\ ~failed
    /\ \A w \in Writers : pc[w] # "save_write"
    /\ \E e \in acked : \A i \in 1..Len(Persisted(file)) : Persisted(file)[i] # e )
  => clobbered

\* Both calls returned True, no save failed, and only one of the two records
\* is persisted.
C10_Witness ==
  /\ ~failed
  /\ \A w \in Writers : pc[w] = "idle"
  /\ Cardinality(acked) = 2
  /\ Len(Persisted(file)) = 1
  /\ Persisted(file)[1] \in acked

====
